---------------------------- MODULE Spec2Model ----------------------------
(***************************************************************************)
(* A model of goodReadsFuzzyEnricher.py: the candidate fetcher             *)
(* (search_goodreads), the manual resolution dialog                        *)
(* (ask_user_choice_with_images / ManualMatchDialog), the row loop of      *)
(* process_book_csv and the __main__ block that runs it.                   *)
(*                                                                         *)
(* Conventions.  Python's None is the record NoneVal.  Python lists are    *)
(* sequences, read with 0-based indices through At and Slice.  Similarity  *)
(* scores are exact hundredths (80 stands for 0.80).  A value returned by  *)
(* a function is a tagged record, so that None, [] and a non-empty list    *)
(* stay distinct.                                                          *)
(***************************************************************************)
EXTENDS Integers, Sequences, FiniteSets, TLC

VARIABLES
    cfg,      \* the inputs of the run: arguments, input table, environment flags
    pc,       \* the control location
    fetch,    \* the frame of the search_goodreads call in progress
    dlg,      \* the ManualMatchDialog object and the return value of its call
    row,      \* the loop locals of process_book_csv
    df,       \* the five output columns of the data frame, one record per row
    hist      \* what has been observed so far: calls per row, writes, exit

vars == <<cfg, pc, fetch, dlg, row, df, hist>>

----------------------------------------------------------------------------
(* Bounds of the model *)

\* the longest input table
MaxRows == 2
\* the most result elements one search response holds
MaxAvail == 3
\* the largest max_retries a direct caller of search_goodreads passes
MaxRetries == 4
\* the largest max_results a direct caller of search_goodreads passes
MaxResults == 3
\* the most pieces a title given to normalize_title is put together from
MaxPieces == 4
\* the most words a title given to the scorer is put together from
MaxWords == 2
\* 'Next set' is not pressed beyond this page number
MaxPage == 2
\* the longest candidate list a direct caller of ask_user_choice_with_images passes
MaxCands == 4

(* Program constants *)

\* search_goodreads(query, max_retries=3, max_results=5)
DefaultMaxRetries == 3
DefaultMaxResults == 5
\* ManualMatchDialog.per_page
per_page == 3
\* process_book_csv(..., auto_score_threshold=0.80, gap_threshold=0.12), in hundredths
DefaultAutoScore == 80
DefaultGap == 12
\* process_book_csv(..., delay=0.5, ...), in hundredths of a second
DefaultDelay == 50

----------------------------------------------------------------------------
(* Values *)

NoneVal == [none |-> TRUE]

\* an int where None is possible too
IntVal(i) == [int |-> i]

\* pandas reads a missing cell as NaN
NaN == "<NaN>"

Min(a, b) == IF a <= b THEN a ELSE b

Range(s) == { s[i] : i \in DOMAIN s }

RECURSIVE Pow2(_)
Pow2(n) == IF n = 0 THEN 1 ELSE 2 * Pow2(n - 1)

\* seq[i] of Python, 0-based
At(seq, i) == seq[i + 1]

\* seq[start:end] of Python, for 0 <= start <= end
Slice(seq, start, end) ==
    IF start >= Len(seq) THEN <<>>
    ELSE SubSeq(seq, start + 1, Min(end, Len(seq)))

\* the candidate dict built from the k-th result element (0-based) of the
\* response to the query of input row r; every second one carries no cover
Candidate(r, k) ==
    LET tag == ToString(r) \o "." \o ToString(k) IN
    [ exact_title   |-> "title " \o tag,
      author        |-> "author " \o tag,
      publish_date  |-> "19" \o ToString(50 + k),
      ratings_count |-> 10 * r + k,
      goodreads_url |-> "https://www.goodreads.com/book/show/" \o tag,
      image_url     |-> IF k % 2 = 0 THEN "https://images/" \o tag ELSE "" ]

\* the no-match dict with a sentinel for the unknown count
EmptyChosenSentinel ==
    [ exact_title |-> "", author |-> "", publish_date |-> "",
      ratings_count |-> -1, goodreads_url |-> "" ]

\* the dict process_book_csv uses when there is no match (lines 271, 312)
EmptyChosen ==
    [ exact_title |-> "", author |-> "", publish_date |-> "",
      ratings_count |-> 0, goodreads_url |-> "" ]

----------------------------------------------------------------------------
(* normalize_title *)

\* a str, as the sequence of its characters
Str(chars) == [kind |-> "str", chars |-> chars]

UpperCase == << "A", "B", "C", "D", "E", "F", "G", "H", "I", "J", "K", "L", "M",
               "N", "O", "P", "Q", "R", "S", "T", "U", "V", "W", "X", "Y", "Z" >>
LowerCase == << "a", "b", "c", "d", "e", "f", "g", "h", "i", "j", "k", "l", "m",
               "n", "o", "p", "q", "r", "s", "t", "u", "v", "w", "x", "y", "z" >>
Digits == { "0", "1", "2", "3", "4", "5", "6", "7", "8", "9" }

\* str.lower() on one character
Lower(c) ==
    IF \E i \in 1..26 : UpperCase[i] = c
    THEN LowerCase[CHOOSE i \in 1..26 : UpperCase[i] = c]
    ELSE c

\* \s of re
IsSpace(c) == c \in { " ", "\t", "\n", "\r", "\f" }

\* \w of re: letters, digits and the underscore
IsWord(c) == c \in Range(UpperCase) \cup Range(LowerCase) \cup Digits \cup {"_"}

\* the alternatives of the pattern of line 35
Keywords ==
    { << "a", "n", "n", "i", "v", "e", "r", "s", "a", "r", "y" >>,
      << "e", "d", "i", "t", "i", "o", "n" >>,
      << "i", "l", "l", "u", "s", "t", "r", "a", "t", "e", "d" >>,
      << "c", "o", "l", "l", "e", "c", "t", "o", "r" >>,
      << "g", "i", "f", "t" >>,
      << "p", "a", "c", "k" >>,
      << "h", "a", "r", "d", "c", "o", "v", "e", "r" >>,
      << "p", "a", "p", "e", "r", "b", "a", "c", "k" >>,
      << "k", "i", "n", "d", "l", "e" >>,
      << "e", "b", "o", "o", "k" >> }

\* str.strip(): whitespace off both ends
RECURSIVE LStrip(_)
LStrip(s) == IF s # <<>> /\ IsSpace(Head(s)) THEN LStrip(Tail(s)) ELSE s
RECURSIVE RStrip(_)
RStrip(s) ==
    IF s # <<>> /\ IsSpace(s[Len(s)]) THEN RStrip(SubSeq(s, 1, Len(s) - 1)) ELSE s
Strip(s) == RStrip(LStrip(s))

\* \b(kw)\b matches at position i of s (1-based) for one of the keywords
KeywordAt(s, i) ==
    \E kw \in Keywords :
       /\ i + Len(kw) - 1 <= Len(s)
       /\ SubSeq(s, i, i + Len(kw) - 1) = kw
       /\ i = 1 \/ ~IsWord(s[i - 1])
       /\ i + Len(kw) > Len(s) \/ ~IsWord(s[i + Len(kw)])

\* where .* started at position i stops: at the next newline or the end
RECURSIVE LineEnd(_, _)
LineEnd(s, i) ==
    IF i > Len(s) \/ s[i] = "\n" THEN i ELSE LineEnd(s, i + 1)

\* line 35: re.sub(r'\b(...)\b.*', '', title), from position i on: every
\* match, a keyword with the rest of its line, is taken out
RECURSIVE CutKeywords(_, _)
CutKeywords(s, i) ==
    IF i > Len(s) THEN <<>>
    ELSE IF KeywordAt(s, i) THEN CutKeywords(s, LineEnd(s, i))
    ELSE <<s[i]>> \o CutKeywords(s, i + 1)

\* line 37 with the class [^a-z0-9\s], which takes the underscore too
IsPunctOrUnderscore(c) == c = "_" \/ (~IsWord(c) /\ ~IsSpace(c))

\* the characters line 37 replaces: [^\w\s]
IsPunct(c) == ~IsWord(c) /\ ~IsSpace(c)

\* line 37: re.sub(r'[^\w\s]', ' ', title)
Unpunct(s) == [i \in 1..Len(s) |-> IF IsPunct(s[i]) THEN " " ELSE s[i]]

\* line 39: ' '.join(title.split()), on a string without leading whitespace
RECURSIVE JoinSplit(_)
JoinSplit(s) ==
    IF s = <<>> THEN <<>>
    ELSE IF IsSpace(Head(s))
         THEN LET rest == LStrip(s)
              IN  IF rest = <<>> THEN <<>> ELSE <<" ">> \o JoinSplit(rest)
         ELSE <<Head(s)>> \o JoinSplit(Tail(s))

\* normalize_title, lines 29-40; the result is a str
normalize_title(title) ==
    IF title = NoneVal \/ title = Str(<<>>) THEN <<>>
    ELSE LET lowered == Strip([i \in 1..Len(title.chars) |-> Lower(title.chars[i])])
             cut     == CutKeywords(lowered, 1)
         IN  JoinSplit(LStrip(Unpunct(cut)))

----------------------------------------------------------------------------
(* the fallback scorer of process_book_csv, lines 285-295 *)

\* a fraction num/den
Frac(num, den) == [num |-> num, den |-> den]

\* str.split() on a normalized title: its words
RECURSIVE SplitWords(_, _)
SplitWords(s, word) ==
    IF s = <<>> THEN (IF word = <<>> THEN {} ELSE {word})
    ELSE IF IsSpace(Head(s))
         THEN (IF word = <<>> THEN {} ELSE {word}) \cup SplitWords(Tail(s), <<>>)
         ELSE SplitWords(Tail(s), Append(word, Head(s)))

\* set(title.split()), lines 286-287
Tokens(s) == SplitWords(s, <<>>)

\* lines 288-293
Jaccard(q_tokens, t_tokens) ==
    IF q_tokens # {} \/ t_tokens # {}
    THEN LET inter == Cardinality(q_tokens \cap t_tokens)
             union == Cardinality(q_tokens \cup t_tokens)
         IN  IF union # 0 THEN Frac(inter, union) ELSE Frac(0, 1)
    ELSE Frac(0, 1)

\* the length of the longest common run of a[i:ahi] and b[j:bhi] from their
\* starts (0-based, half-open)
RECURSIVE CommonLen(_, _, _, _, _, _)
CommonLen(a, b, i, j, ahi, bhi) ==
    IF i < ahi /\ j < bhi /\ At(a, i) = At(b, j)
    THEN 1 + CommonLen(a, b, i + 1, j + 1, ahi, bhi)
    ELSE 0

\* SequenceMatcher.find_longest_match without junk: the longest block common
\* to a[alo:ahi] and b[blo:bhi], the earliest in a and then in b among the
\* longest; <<alo, blo, 0>> when there is none
LongestMatch(a, b, alo, ahi, blo, bhi) ==
    LET starts == { p \in (alo..(ahi - 1)) \X (blo..(bhi - 1)) :
                      CommonLen(a, b, p[1], p[2], ahi, bhi) > 0 }
        len(p) == CommonLen(a, b, p[1], p[2], ahi, bhi)
    IN  IF starts = {} THEN <<alo, blo, 0>>
        ELSE LET best == CHOOSE p \in starts : \A q \in starts :
                            \/ len(p) > len(q)
                            \/ /\ len(p) = len(q)
                               /\ p[1] < q[1] \/ (p[1] = q[1] /\ p[2] <= q[2])
             IN  <<best[1], best[2], len(best)>>

\* SequenceMatcher.get_matching_blocks: the total size of the blocks, found
\* by taking the longest block and then the longest to its left and right
RECURSIVE Matched(_, _, _, _, _, _)
Matched(a, b, alo, ahi, blo, bhi) ==
    LET m == LongestMatch(a, b, alo, ahi, blo, bhi)
        i == m[1]
        j == m[2]
        k == m[3]
    IN  IF k = 0 THEN 0
        ELSE k + (IF alo < i /\ blo < j THEN Matched(a, b, alo, i, blo, j) ELSE 0)
               + (IF i + k < ahi /\ j + k < bhi
                  THEN Matched(a, b, i + k, ahi, j + k, bhi) ELSE 0)

\* difflib.SequenceMatcher(None, a, b).ratio(), line 294: 2*M/T, and 1.0 when
\* both strings are empty
SeqRatio(a, b) ==
    LET length == Len(a) + Len(b)
    IN  IF length # 0
        THEN Frac(2 * Matched(a, b, 0, Len(a), 0, Len(b)), length)
        ELSE Frac(1, 1)

\* line 295 with the weights 0.6 and 0.6
WeightedSixSix(jacc, seq) ==
    Frac(6 * jacc.num * seq.den + 6 * seq.num * jacc.den, 10 * jacc.den * seq.den)

\* line 295: s = 0.6 * jacc + 0.4 * seq
Weighted(jacc, seq) ==
    Frac(6 * jacc.num * seq.den + 4 * seq.num * jacc.den, 10 * jacc.den * seq.den)

\* lines 286-295 for one candidate title
FallbackScore(norm_query, nt) ==
    LET jacc == Jaccard(Tokens(norm_query), Tokens(nt))
        seq  == SeqRatio(norm_query, nt)
    IN  [jacc |-> jacc, seq |-> seq, s |-> Weighted(jacc, seq)]

----------------------------------------------------------------------------
(* search_goodreads *)

\* return values
RetPending == [kind |-> "pending", items |-> <<>>]
RetNone    == [kind |-> "None", items |-> <<>>]
RetList(s) == [kind |-> "list", items |-> s]

\* the frame at the call search_goodreads(query, max_retries, max_results)
FetchFrame(mr, mx) ==
    [ max_retries |-> mr, max_results |-> mx, attempt |-> 0,
      requests |-> 0, waits |-> <<>>, outcomes |-> <<>>, ret |-> RetPending ]

NoFetch == FetchFrame(0, 0)

\* lines 71-116: at most max_results candidates, in the order of the response
ParseCandidates(r, n, mx) == [k \in 1..Min(n, mx) |-> Candidate(r, k - 1)]

\* one more GET of the search page has been issued (line 57) and has ended
\* with outcome o
Requested(f, o) ==
    [f EXCEPT !.requests = @ + 1, !.outcomes = Append(@, o)]

\* the statement `return v` of search_goodreads
Returned(f, v) == [f EXCEPT !.ret = v]

\* line 55 with the range exhausted: the for loop ends and the function falls
\* off its end, which returns None
FetchFallThrough ==
    /\ pc = "fetch"
    /\ fetch.attempt >= fetch.max_retries
    /\ fetch' = Returned(fetch, RetNone)
    /\ pc' = "fetch_ret"
    /\ UNCHANGED <<cfg, dlg, row, df, hist>>

\* FetchTransient with line 118 reading `attempt < max_retries`: it sleeps
\* after the last attempt too
FetchTransientSleepsLast ==
    /\ pc = "fetch"
    /\ fetch.attempt < fetch.max_retries
    /\ fetch' = Requested(fetch, "transient")
    /\ pc' = "backoff"
    /\ UNCHANGED <<cfg, dlg, row, df, hist>>

\* FetchTransient with line 121 raising again instead of returning []
FetchTransientRaises ==
    /\ pc = "fetch"
    /\ fetch.attempt < fetch.max_retries
    /\ IF fetch.attempt < fetch.max_retries - 1
       THEN /\ fetch' = Requested(fetch, "transient")
            /\ pc' = "backoff"
            /\ hist' = hist
       ELSE /\ fetch' = Requested(fetch, "transient")
            /\ pc' = "raised"
            /\ hist' = [hist EXCEPT !.error = [type |-> "RequestException",
                                               columns |-> <<>>]]
    /\ UNCHANGED <<cfg, dlg, row, df>>

\* lines 57-58 raise requests.RequestException; lines 117-121
FetchTransient ==
    /\ pc = "fetch"
    /\ fetch.attempt < fetch.max_retries
    /\ IF fetch.attempt < fetch.max_retries - 1
       THEN /\ fetch' = Requested(fetch, "transient")
            /\ pc' = "backoff"
       ELSE /\ fetch' = Returned(Requested(fetch, "transient"), RetList(<<>>))
            /\ pc' = "fetch_ret"
    /\ UNCHANGED <<cfg, dlg, row, df, hist>>

\* line 119: time.sleep(2 ** attempt), then the next iteration of line 55
Backoff ==
    /\ pc = "backoff"
    /\ fetch' = [fetch EXCEPT !.waits = Append(@, Pow2(fetch.attempt)),
                              !.attempt = @ + 1]
    /\ pc' = "fetch"
    /\ UNCHANGED <<cfg, dlg, row, df, hist>>

\* lines 57-116 raise an exception that is no RequestException; lines 122-123
FetchOtherException ==
    /\ pc = "fetch"
    /\ fetch.attempt < fetch.max_retries
    /\ fetch' = Returned(Requested(fetch, "other"), RetList(<<>>))
    /\ pc' = "fetch_ret"
    /\ UNCHANGED <<cfg, dlg, row, df, hist>>

\* lines 68-69 with `continue` in place of `return []`: a page without
\* results is tried again after the backoff wait
FetchNoResultsRetried ==
    /\ pc = "fetch"
    /\ fetch.attempt < fetch.max_retries
    /\ IF fetch.attempt < fetch.max_retries - 1
       THEN /\ fetch' = Requested(fetch, "noresults")
            /\ pc' = "backoff"
       ELSE /\ fetch' = Returned(Requested(fetch, "noresults"), RetList(<<>>))
            /\ pc' = "fetch_ret"
    /\ UNCHANGED <<cfg, dlg, row, df, hist>>

\* lines 59-69: none of the three selectors finds a result element
FetchNoResults ==
    /\ pc = "fetch"
    /\ fetch.attempt < fetch.max_retries
    /\ fetch' = Returned(Requested(fetch, "noresults"), RetList(<<>>))
    /\ pc' = "fetch_ret"
    /\ UNCHANGED <<cfg, dlg, row, df, hist>>

\* the search made with the title of the first row, whatever the row
FetchParsedFirstQuery ==
    /\ pc = "fetch"
    /\ fetch.attempt < fetch.max_retries
    /\ \E n \in 1..MaxAvail :
          fetch' = Returned(Requested(fetch, "parsed"),
                       RetList(ParseCandidates(Min(row.index, 1), n, fetch.max_results)))
    /\ pc' = "fetch_ret"
    /\ UNCHANGED <<cfg, dlg, row, df, hist>>

\* lines 59-116: the response holds n result elements
FetchParsed ==
    /\ pc = "fetch"
    /\ fetch.attempt < fetch.max_retries
    /\ \E n \in 1..MaxAvail :
          fetch' = Returned(Requested(fetch, "parsed"),
                       RetList(ParseCandidates(row.index, n, fetch.max_results)))
    /\ pc' = "fetch_ret"
    /\ UNCHANGED <<cfg, dlg, row, df, hist>>

search_goodreads ==
    \/ FetchTransient
    \/ Backoff
    \/ FetchOtherException
    \/ FetchNoResults
    \/ FetchParsed

----------------------------------------------------------------------------
(* ask_user_choice_with_images and its ManualMatchDialog *)

\* no dialog exists
NoDialog ==
    [ open |-> FALSE, candidates |-> <<>>, page |-> 0, has_var |-> FALSE,
      var |-> -1, selected_idx |-> NoneVal, none_selected |-> FALSE,
      images |-> 0, closed_by |-> "", ret |-> RetPending ]

\* lines 184-204: one GET per candidate of the page that has an image_url,
\* when PIL is there
ImageGets(slice) ==
    IF cfg.PIL_AVAILABLE
    THEN Cardinality({i \in 1..Len(slice) : slice[i].image_url # ""})
    ELSE 0

\* render_page, lines 169-210: an empty slice shows 'No more results.' and
\* leaves self.var as it is; otherwise self.var is a new IntVar(value=-1) and
\* the page's radio buttons carry the indices start .. start+len(slice)-1
render_page(d) ==
    LET start == d.page * per_page
        slice == Slice(d.candidates, start, start + per_page)
    IN  IF slice = <<>> THEN d
        ELSE [d EXCEPT !.has_var = TRUE, !.var = -1,
                       !.images = @ + ImageGets(slice)]

\* the indices of the radio buttons on display
Displayed(d) ==
    LET start == d.page * per_page
    IN  { start + i : i \in 0..(Len(Slice(d.candidates, start, start + per_page)) - 1) }

\* ManualMatchDialog.__init__, lines 130-154, up to wait_window
NewDialog(cands) ==
    render_page([NoDialog EXCEPT !.open = TRUE, !.candidates = cands])

\* the user clicks the radio button of candidate idx: the IntVar takes its value
SelectRadio ==
    /\ pc = "dialog"
    /\ \E idx \in Displayed(dlg) : dlg' = [dlg EXCEPT !.var = idx]
    /\ UNCHANGED <<cfg, pc, fetch, row, df, hist>>

\* on_more, lines 212-214
on_more ==
    /\ pc = "dialog"
    /\ dlg.page < MaxPage
    /\ dlg' = render_page([dlg EXCEPT !.page = @ + 1])
    /\ UNCHANGED <<cfg, pc, fetch, row, df, hist>>

\* on_none ('Skip'), lines 216-219
on_none ==
    /\ pc = "dialog"
    /\ dlg' = [dlg EXCEPT !.none_selected = TRUE, !.open = FALSE,
                         !.closed_by = "Skip"]
    /\ pc' = "dialog_closed"
    /\ UNCHANGED <<cfg, fetch, row, df, hist>>

\* on_cancel doing what on_ok does: a selection made before survives
on_cancel_keeps ==
    /\ pc = "dialog"
    /\ dlg' = [dlg EXCEPT
                 !.selected_idx = IF dlg.has_var /\ dlg.var >= 0
                                  THEN IntVal(dlg.var) ELSE @,
                 !.open = FALSE, !.closed_by = "Cancel"]
    /\ pc' = "dialog_closed"
    /\ UNCHANGED <<cfg, fetch, row, df, hist>>

\* on_cancel ('Cancel' and WM_DELETE_WINDOW), lines 221-224
on_cancel ==
    /\ pc = "dialog"
    /\ dlg' = [dlg EXCEPT !.selected_idx = NoneVal, !.open = FALSE,
                         !.closed_by = "Cancel"]
    /\ pc' = "dialog_closed"
    /\ UNCHANGED <<cfg, fetch, row, df, hist>>

\* on_ok, lines 226-231; without self.var line 227 raises inside the Tk
\* callback and the dialog stays as it is
on_ok ==
    /\ pc = "dialog"
    /\ dlg.has_var
    /\ dlg' = [dlg EXCEPT
                 !.selected_idx = IF dlg.var >= 0 THEN IntVal(dlg.var) ELSE @,
                 !.open = FALSE, !.closed_by = "OK"]
    /\ pc' = "dialog_closed"
    /\ UNCHANGED <<cfg, fetch, row, df, hist>>

\* what lines 235-239 return
DialogResult(d) ==
    IF d.none_selected THEN NoneVal
    ELSE IF d.selected_idx # NoneVal THEN At(d.candidates, d.selected_idx.int)
    ELSE NoneVal

\* lines 233-239, after wait_window has returned
DialogReturn ==
    /\ pc = "dialog_closed"
    /\ dlg' = [dlg EXCEPT
                 !.ret = [kind |-> "value", items |-> <<DialogResult(dlg)>>]]
    /\ pc' = "dialog_ret"
    /\ UNCHANGED <<cfg, fetch, row, df, hist>>

ask_user_choice_with_images ==
    \/ SelectRadio
    \/ on_more
    \/ on_none
    \/ on_cancel
    \/ on_ok
    \/ DialogReturn

----------------------------------------------------------------------------
(* process_book_csv *)

\* the name of the title column the caller passes
book_column == "Title"

\* line 266 without its second test
IsBlankOnlyNaN(title) == title = NaN

\* pd.isna(book_name) or book_name == '' (line 266)
IsBlank(title) == title = NaN \/ title = ""

\* the five output fields as lines 257-261 create them
DefaultRow ==
    [ exact_book_name |-> "", author |-> "", publish_date |-> "",
      ratings_count |-> 0, goodreads_link |-> "" ]

\* lines 314-318: the five output fields read from the chosen dict
OutputRow(chosen) ==
    [ exact_book_name |-> chosen.exact_title,
      author          |-> chosen.author,
      publish_date    |-> chosen.publish_date,
      ratings_count   |-> chosen.ratings_count,
      goodreads_link  |-> chosen.goodreads_url ]

\* the loop locals before the first iteration and between iterations: each
\* name is bound again (lines 265, 268, 269, 278, 298, 308) before it is read
NoLocals(i) ==
    [ index |-> i, book_name |-> NaN, candidates |-> RetPending,
      scores |-> <<>>, sorted_idx |-> <<>>, selected |-> NoneVal,
      chosen |-> NoneVal ]

\* what has been done for one row
NoCalls == [fetch |-> 0, writes |-> 0, delay |-> 0]

Bump(h, r, field) == [h EXCEPT !.calls[r][field] = @ + 1]

\* `not candidates` (line 270): None and [] are both false
Falsy(ret) == ret.kind = "None" \/ ret.items = <<>>

\* line 298 as sorted(...)[::-1]: the reversal turns equal scores around,
\* the highest index among equals comes first
FirstOfReversed(sc, rest) ==
    CHOOSE i \in rest :
        \A j \in rest : At(sc, i) > At(sc, j) \/ (At(sc, i) = At(sc, j) /\ i >= j)

\* the 0-based index, among those of the set rest, that sorted(...,
\* reverse=True) puts first: the highest score and, the sort being stable,
\* the lowest index among equals
First(sc, rest) ==
    CHOOSE i \in rest :
        \A j \in rest : At(sc, i) > At(sc, j) \/ (At(sc, i) = At(sc, j) /\ i <= j)

RECURSIVE SortFrom(_, _)
SortFrom(sc, rest) ==
    IF rest = {} THEN <<>>
    ELSE LET i == First(sc, rest) IN <<i>> \o SortFrom(sc, rest \ {i})

\* line 298: sorted(range(len(scores)), key=lambda i: scores[i], reverse=True)
SortedIdx(sc) == SortFrom(sc, 0..(Len(sc) - 1))

\* line 302 without its first test
AutoAcceptIgnoresNoConfirm(top, second) ==
    \/ top >= cfg.auto_score_threshold
    \/ (top - second) >= cfg.gap_threshold

\* line 302 with both comparisons strict
AutoAcceptStrict(top, second) ==
    \/ cfg.no_confirm
    \/ top > cfg.auto_score_threshold
    \/ (top - second) > cfg.gap_threshold

\* line 302
AutoAccept(top, second) ==
    \/ cfg.no_confirm
    \/ top >= cfg.auto_score_threshold
    \/ (top - second) >= cfg.gap_threshold

\* the scores the similarity function gives the titles of n candidates
ScoreValues == {58, 60, 70, 80}
ScoreVectors(n) == [1..n -> ScoreValues]

\* lines 251-256 with the column absent: ValueError naming the columns
ConfigError ==
    /\ pc = "start"
    /\ book_column \notin Range(cfg.columns)
    /\ hist' = [hist EXCEPT !.error = [type |-> "ValueError", columns |-> cfg.columns]]
    /\ pc' = "raised"
    /\ UNCHANGED <<cfg, fetch, dlg, row, df>>

\* lines 257-261 run before the test of line 255
AddColumnsUnchecked ==
    /\ pc = "start"
    /\ df' = [added |-> TRUE, rows |-> [i \in 1..cfg.nrows |-> DefaultRow]]
    /\ pc' = "loop"
    /\ UNCHANGED <<cfg, fetch, dlg, row, hist>>

\* lines 251-261 with the column present: the five columns get their defaults
AddColumns ==
    /\ pc = "start"
    /\ book_column \in Range(cfg.columns)
    /\ df' = [added |-> TRUE, rows |-> [i \in 1..cfg.nrows |-> DefaultRow]]
    /\ pc' = "loop"
    /\ UNCHANGED <<cfg, fetch, dlg, row, hist>>

\* lines 264-267: the next row has no title
SkipRow ==
    /\ pc = "loop"
    /\ row.index < cfg.nrows
    /\ IsBlank(cfg.titles[row.index + 1])
    /\ row' = [NoLocals(row.index + 1) EXCEPT !.book_name = cfg.titles[row.index + 1]]
    /\ hist' = [hist EXCEPT !.visited = Append(@, row.index + 1), !.dlg_calls = 0]
    /\ UNCHANGED <<cfg, pc, fetch, dlg, df>>

\* lines 264-268: the next row has a title; search_goodreads(book_name) is called
BeginRow ==
    /\ pc = "loop"
    /\ row.index < cfg.nrows
    /\ ~IsBlank(cfg.titles[row.index + 1])
    /\ row' = [NoLocals(row.index + 1) EXCEPT !.book_name = cfg.titles[row.index + 1]]
    /\ fetch' = FetchFrame(DefaultMaxRetries, DefaultMaxResults)
    /\ hist' = Bump([hist EXCEPT !.visited = Append(@, row.index + 1),
                                 !.dlg_calls = 0],
                    row.index + 1, "fetch")
    /\ pc' = "fetch"
    /\ UNCHANGED <<cfg, dlg, df>>

\* lines 268-271: no candidate
NoCandidates ==
    /\ pc = "fetch_ret"
    /\ Falsy(fetch.ret)
    /\ row' = [row EXCEPT !.candidates = fetch.ret, !.chosen = EmptyChosen]
    /\ fetch' = NoFetch
    /\ pc' = "write"
    /\ UNCHANGED <<cfg, dlg, df, hist>>

\* a single candidate taken only when confirmations are off
SingleCandidateUnlessConfirm ==
    /\ pc = "fetch_ret"
    /\ ~Falsy(fetch.ret)
    /\ Len(fetch.ret.items) = 1
    /\ row' = [row EXCEPT !.candidates = fetch.ret,
                          !.chosen = IF cfg.no_confirm THEN At(fetch.ret.items, 0)
                                     ELSE EmptyChosen]
    /\ fetch' = NoFetch
    /\ pc' = "write"
    /\ UNCHANGED <<cfg, dlg, df, hist>>

\* lines 268-273: one candidate
SingleCandidate ==
    /\ pc = "fetch_ret"
    /\ ~Falsy(fetch.ret)
    /\ Len(fetch.ret.items) = 1
    /\ row' = [row EXCEPT !.candidates = fetch.ret,
                          !.chosen = At(fetch.ret.items, 0)]
    /\ fetch' = NoFetch
    /\ pc' = "write"
    /\ UNCHANGED <<cfg, dlg, df, hist>>

\* lines 268-301 with two or more candidates: every title is scored and the
\* indices are sorted by score
ScoreCandidates ==
    /\ pc = "fetch_ret"
    /\ ~Falsy(fetch.ret)
    /\ Len(fetch.ret.items) >= 2
    /\ \E sc \in ScoreVectors(Len(fetch.ret.items)) :
         row' = [row EXCEPT !.candidates = fetch.ret, !.scores = sc,
                            !.sorted_idx = SortedIdx(sc)]
    /\ fetch' = NoFetch
    /\ pc' = "decide"
    /\ UNCHANGED <<cfg, dlg, df, hist>>

\* lines 299-301
TopIdx(r) == At(r.sorted_idx, 0)
Top(r)    == At(r.scores, TopIdx(r))
Second(r) == IF Len(r.scores) > 1 THEN At(r.scores, At(r.sorted_idx, 1)) ELSE 0

\* line 306: the candidates in sorted order
Ordered(r) ==
    [i \in 1..Len(r.sorted_idx) |-> At(r.candidates.items, r.sorted_idx[i])]

\* lines 302-303: the top candidate is taken
AutoSelect ==
    /\ pc = "decide"
    /\ AutoAccept(Top(row), Second(row))
    /\ row' = [row EXCEPT !.chosen = At(row.candidates.items, TopIdx(row))]
    /\ pc' = "write"
    /\ UNCHANGED <<cfg, fetch, dlg, df, hist>>

\* lines 304-308: ask_user_choice_with_images(root, book_name,
\* ordered_candidates) is called; of the locals only index and book_name are
\* read after this line
Escalate ==
    /\ pc = "decide"
    /\ ~AutoAccept(Top(row), Second(row))
    /\ cfg.root_defined
    /\ dlg' = NewDialog(Ordered(row))
    /\ row' = [NoLocals(row.index) EXCEPT !.book_name = row.book_name]
    /\ hist' = [hist EXCEPT !.dlg_calls = @ + 1]
    /\ pc' = "dialog"
    /\ UNCHANGED <<cfg, fetch, df>>

\* line 308 reads the global root, which only the __main__ block binds
EscalateWithoutRoot ==
    /\ pc = "decide"
    /\ ~AutoAccept(Top(row), Second(row))
    /\ ~cfg.root_defined
    /\ hist' = [hist EXCEPT !.error = [type |-> "NameError", columns |-> <<>>]]
    /\ row' = NoLocals(row.index)
    /\ pc' = "raised"
    /\ UNCHANGED <<cfg, fetch, dlg, df>>

\* lines 308-312: the dialog's answer, or the empty dict for None
AfterDialog ==
    /\ pc = "dialog_ret"
    /\ LET selected == dlg.ret.items[1]
       IN  row' = [row EXCEPT !.selected = selected,
                              !.chosen = IF selected # NoneVal THEN selected
                                         ELSE EmptyChosen]
    /\ dlg' = NoDialog
    /\ pc' = "write"
    /\ UNCHANGED <<cfg, fetch, df, hist>>

\* lines 314-318 with df[column] = value in place of df.loc[index, column]:
\* the whole column is set
WriteRowWholeColumn ==
    /\ pc = "write"
    /\ df' = [df EXCEPT !.rows = [i \in 1..cfg.nrows |-> OutputRow(row.chosen)]]
    /\ hist' = Bump(hist, row.index, "writes")
    /\ pc' = "delay"
    /\ UNCHANGED <<cfg, fetch, dlg, row>>

\* lines 314-319 with the sleep only for rows that got a match
WriteRowSleepOnMatch ==
    /\ pc = "write"
    /\ df' = [df EXCEPT !.rows[row.index] = OutputRow(row.chosen)]
    /\ hist' = Bump(hist, row.index, "writes")
    /\ IF row.chosen = EmptyChosen
       THEN pc' = "loop" /\ row' = NoLocals(row.index)
       ELSE pc' = "delay" /\ row' = row
    /\ UNCHANGED <<cfg, fetch, dlg>>

\* lines 314-318
WriteRow ==
    /\ pc = "write"
    /\ df' = [df EXCEPT !.rows[row.index] = OutputRow(row.chosen)]
    /\ hist' = Bump(hist, row.index, "writes")
    /\ pc' = "delay"
    /\ UNCHANGED <<cfg, fetch, dlg, row>>

\* line 319: time.sleep(delay), then back to line 264
Delay ==
    /\ pc = "delay"
    /\ hist' = Bump([hist EXCEPT !.sleeps = Append(@, cfg.delay)], row.index, "delay")
    /\ row' = NoLocals(row.index)
    /\ pc' = "loop"
    /\ UNCHANGED <<cfg, fetch, dlg, df>>

\* lines 321-326: the loop is over, df.to_csv writes the output file
SaveOutput ==
    /\ pc = "loop"
    /\ row.index = cfg.nrows
    /\ hist' = [hist EXCEPT !.output_writes = @ + 1, !.output = df.rows]
    /\ pc' = "returned"
    /\ UNCHANGED <<cfg, fetch, dlg, row, df>>

\* the locations inside the loop body of process_book_csv
RowPcs == { "fetch", "backoff", "fetch_ret", "decide", "dialog", "dialog_closed",
            "dialog_ret", "write", "delay" }

\* KeyboardInterrupt while a row is processed: no handler inside
\* process_book_csv catches it (lines 117, 122, 203 name Exception
\* subclasses), so the frames of the call are left
Interrupt ==
    /\ pc \in RowPcs
    /\ hist' = [hist EXCEPT !.interrupted_at = row.index,
                            !.interrupted_in = pc,
                            !.error = [type |-> "KeyboardInterrupt", columns |-> <<>>]]
    /\ fetch' = NoFetch
    /\ dlg' = NoDialog
    /\ row' = NoLocals(row.index)
    /\ pc' = IF cfg.entry = "main" THEN "interrupted" ELSE "raised"
    /\ UNCHANGED <<cfg, df>>

process_book_csv ==
    \/ AddColumns
    \/ SkipRow
    \/ BeginRow
    \/ search_goodreads
    \/ NoCandidates
    \/ SingleCandidate
    \/ ScoreCandidates
    \/ AutoSelect
    \/ Escalate
    \/ ask_user_choice_with_images
    \/ AfterDialog
    \/ WriteRow
    \/ Delay
    \/ SaveOutput

----------------------------------------------------------------------------
(* the __main__ block, lines 391-412 *)

\* process_book_csv returned: the finally clause destroys root, exit status 0
MainReturn ==
    /\ pc = "returned"
    /\ cfg.entry = "main"
    /\ hist' = [hist EXCEPT !.root_destroys = @ + 1, !.exit_status = IntVal(0)]
    /\ pc' = "exited"
    /\ UNCHANGED <<cfg, fetch, dlg, row, df>>

\* the handler without sys.exit(1): the script ends with status 0
HandleInterruptNoExit ==
    /\ pc = "interrupted"
    /\ hist' = [hist EXCEPT !.root_destroys = @ + 2, !.exit_status = IntVal(0)]
    /\ pc' = "exited"
    /\ UNCHANGED <<cfg, fetch, dlg, row, df>>

\* lines 400-412: root.destroy() in the handler, sys.exit(1), and
\* root.destroy() again in the finally clause
HandleInterrupt ==
    /\ pc = "interrupted"
    /\ hist' = [hist EXCEPT !.root_destroys = @ + 2, !.exit_status = IntVal(1)]
    /\ pc' = "exited"
    /\ UNCHANGED <<cfg, fetch, dlg, row, df>>

----------------------------------------------------------------------------
(* Specifications *)

TitleValues == {NaN, "", "Dune"}
\* (auto_score_threshold, gap_threshold, PIL_AVAILABLE): the default
\* thresholds with and without PIL, and a lower pair of thresholds
Settings ==
    { <<DefaultAutoScore, DefaultGap, TRUE>>, <<DefaultAutoScore, DefaultGap, FALSE>>,
      <<70, 10, TRUE>> }
ColumnLists == { <<"Notes", "Title">>, <<"Notes">>, <<"Name", "Notes">> }

NoHist(n) ==
    [ calls |-> [r \in 1..n |-> NoCalls], dlg_calls |-> 0, visited |-> <<>>,
      sleeps |-> <<>>,
      output_writes |-> 0, output |-> <<>>, root_destroys |-> 0,
      exit_status |-> NoneVal, interrupted_at |-> 0, interrupted_in |-> "",
      error |-> [type |-> "", columns |-> <<>>] ]

\* the delay argument: the __main__ block leaves it at its default (lines
\* 392-399), other callers may pass their own
DelayValues(entry) == IF entry = "call" THEN {DefaultDelay, 200} ELSE {DefaultDelay}

\* the inputs of a call of process_book_csv
Inputs(entry, columns, n, titles, roots) ==
    { [ entry |-> entry, columns |-> c, nrows |-> n, titles |-> t,
        root_defined |-> r, no_confirm |-> nc, auto_score_threshold |-> st[1],
        gap_threshold |-> st[2], PIL_AVAILABLE |-> st[3], delay |-> d ] :
      c \in columns, t \in titles, r \in roots, nc \in BOOLEAN,
      st \in Settings, d \in DelayValues(entry) }

StartState ==
    /\ pc = "start"
    /\ fetch = NoFetch
    /\ dlg = NoDialog
    /\ row = NoLocals(0)
    /\ df = [added |-> FALSE, rows |-> <<>>]
    /\ hist = NoHist(cfg.nrows)

\* the script: root = tk.Tk() (line 330) and the title column is one of the
\* file's own columns (lines 343-379)
Init ==
    /\ \E n \in 0..MaxRows :
         cfg \in Inputs("main", {c \in ColumnLists : book_column \in Range(c)}, n,
                        [1..n -> TitleValues], {TRUE})
    /\ StartState

Next ==
    \/ process_book_csv
    \/ Interrupt
    \/ MainReturn
    \/ HandleInterrupt

Spec == Init /\ [][Next]_vars

\* the steps the script takes by itself: a request ends, a sleep ends, a
\* statement runs
ProgramStep ==
    \/ AddColumns \/ SkipRow \/ BeginRow \/ search_goodreads \/ NoCandidates
    \/ SingleCandidate \/ ScoreCandidates \/ AutoSelect \/ Escalate
    \/ DialogReturn \/ AfterDialog \/ WriteRow \/ Delay \/ SaveOutput
    \/ MainReturn \/ HandleInterrupt

\* the user ends the dialog
DialogClose == on_none \/ on_cancel \/ on_ok

\* the script keeps running, and every dialog is answered in the end
FairSpec == Spec /\ WF_vars(ProgramStep) /\ WF_vars(DialogClose)

\* process_book_csv called from other code, with any title column; the
\* global root may or may not be bound by then
InitCall ==
    /\ \E n \in 0..MaxRows : \E c \in ColumnLists :
         cfg \in { i \in Inputs("call", {c}, n,
                                IF book_column \in Range(c)
                                THEN [1..n -> TitleValues] ELSE {<<>>},
                                BOOLEAN) :
                   /\ i.auto_score_threshold = DefaultAutoScore
                   /\ i.PIL_AVAILABLE }
    /\ StartState

NextCall ==
    \/ ConfigError
    \/ process_book_csv
    \/ EscalateWithoutRoot
    \/ Interrupt

SpecCall == InitCall /\ [][NextCall]_vars

\* the inputs of a run in which no row is processed
NoRun(entry) ==
    { i \in Inputs(entry, {<<book_column>>}, 0, {<<>>}, {TRUE}) :
        ~i.no_confirm /\ i.auto_score_threshold = DefaultAutoScore }

\* search_goodreads called from other code
InitFetch ==
    /\ cfg \in { i \in NoRun("search_goodreads") : i.PIL_AVAILABLE }
    /\ pc = "fetch"
    /\ \E mr \in 0..MaxRetries : \E mx \in 0..MaxResults :
         fetch = FetchFrame(mr, mx)
    /\ dlg = NoDialog
    /\ row = NoLocals(0)
    /\ df = [added |-> FALSE, rows |-> <<>>]
    /\ hist = NoHist(0)

NextFetch ==
    \/ search_goodreads
    \/ FetchFallThrough

SpecFetch == InitFetch /\ [][NextFetch]_vars

\* the pieces the titles given to normalize_title are put together from: two
\* keywords, one of them capitalised, a letter, the underscore, a space, a
\* punctuation character and a newline
Pieces ==
    { << "g", "i", "f", "t" >>, << "P", "a", "c", "k" >>, << "x" >>, << "_" >>,
      << " " >>, << "-" >>, << "\n" >> }

RECURSIVE Flatten(_)
Flatten(ps) == IF ps = <<>> THEN <<>> ELSE Head(ps) \o Flatten(Tail(ps))

TitleArgs ==
    {NoneVal} \cup
    { Str(Flatten(ps)) : ps \in UNION { [1..n -> Pieces] : n \in 0..MaxPieces } }

\* normalize_title called from other code; cfg.titles holds the argument
InitNormalize ==
    /\ \E t \in TitleArgs :
         cfg \in { i \in Inputs("normalize_title", {<<book_column>>}, 1, {<<t>>}, {TRUE}) :
                     ~i.no_confirm /\ i.auto_score_threshold = DefaultAutoScore
                     /\ i.PIL_AVAILABLE }
    /\ pc = "normalize"
    /\ fetch = NoFetch
    /\ dlg = NoDialog
    /\ row = NoLocals(0)
    /\ df = [added |-> FALSE, rows |-> <<>>]
    /\ hist = NoHist(0)

\* the call normalize_title(title), first on the argument, then on its own
\* result; row.index counts the calls made
NormalizeCall ==
    /\ pc = "normalize"
    /\ row.index < 2
    /\ LET title == IF row.index = 0 THEN cfg.titles[1] ELSE row.book_name
       IN  row' = [row EXCEPT !.index = @ + 1,
                              !.book_name = Str(normalize_title(title))]
    /\ UNCHANGED <<cfg, pc, fetch, dlg, df, hist>>

SpecNormalize == InitNormalize /\ [][NormalizeCall]_vars

\* the words the titles given to the scorer are put together from; the last
\* one normalizes to two words
ScoreWords ==
    { << "a" >>, << "b" >>, << "a", "b" >>, << "B", "-", "a" >> }

RECURSIVE JoinWords(_)
JoinWords(ws) ==
    IF ws = <<>> THEN <<>>
    ELSE IF Len(ws) = 1 THEN Head(ws)
    ELSE Head(ws) \o <<" ">> \o JoinWords(Tail(ws))

ScoreTitles ==
    { Str(JoinWords(ws)) : ws \in UNION { [1..n -> ScoreWords] : n \in 0..MaxWords } }

\* the scoring of one candidate title against the query, lines 277-296 with
\* RAPIDFUZZ_AVAILABLE false; cfg.titles holds the query and the title
InitScore ==
    /\ \E q \in ScoreTitles : \E t \in ScoreTitles :
         cfg \in { i \in Inputs("scorer", {<<book_column>>}, 2, {<<q, t>>}, {TRUE}) :
                     ~i.no_confirm /\ i.auto_score_threshold = DefaultAutoScore
                     /\ i.PIL_AVAILABLE }
    /\ pc = "score"
    /\ fetch = NoFetch
    /\ dlg = NoDialog
    /\ row = NoLocals(0)
    /\ df = [added |-> FALSE, rows |-> <<>>]
    /\ hist = NoHist(0)

\* lines 277-296 for one title: scores.append(s)
ScoreTitle ==
    /\ pc = "score"
    /\ LET norm_query == normalize_title(cfg.titles[1])
           nt         == normalize_title(cfg.titles[2])
       IN  row' = [row EXCEPT !.scores = Append(@, FallbackScore(norm_query, nt))]
    /\ pc' = "scored"
    /\ UNCHANGED <<cfg, fetch, dlg, df, hist>>

SpecScore == InitScore /\ [][ScoreTitle]_vars

\* ask_user_choice_with_images called from other code, with any list
InitDialog ==
    /\ cfg \in NoRun("ask_user_choice_with_images")
    /\ pc = "dialog"
    /\ fetch = NoFetch
    /\ \E n \in 0..MaxCands : dlg = NewDialog([k \in 1..n |-> Candidate(0, k - 1)])
    /\ row = NoLocals(0)
    /\ df = [added |-> FALSE, rows |-> <<>>]
    /\ hist = NoHist(0)

SpecDialog == InitDialog /\ [][ask_user_choice_with_images]_vars

----------------------------------------------------------------------------
(* The claims *)

\* the highest value of a score vector
MaxScore(sc) == CHOOSE m \in Range(sc) : \A x \in Range(sc) : x <= m

\* the highest value left when one highest entry is taken out
SecondScore(sc) ==
    LET i == CHOOSE i \in DOMAIN sc : sc[i] = MaxScore(sc)
    IN  MaxScore([j \in 1..(Len(sc) - 1) |-> IF j < i THEN sc[j] ELSE sc[j + 1]])

\* the manual resolution interface is called in this step
DialogCalled == hist'.dlg_calls = hist.dlg_calls + 1

C1Step ==
    /\ (pc = "decide" /\ pc' \in {"write", "dialog"}) =>
          LET sc     == row.scores
              top    == MaxScore(sc)
              second == SecondScore(sc)
              cands  == row.candidates.items
          IN  IF \/ cfg.no_confirm
                 \/ top >= cfg.auto_score_threshold
                 \/ (top - second) >= cfg.gap_threshold
              THEN /\ pc' = "write"
                   /\ \E i \in DOMAIN sc : sc[i] = top /\ row'.chosen = cands[i]
                   /\ hist'.dlg_calls = 0
                   /\ ~dlg'.open
              ELSE /\ pc' = "dialog"
                   /\ dlg'.open
                   /\ DialogCalled
    /\ hist'.dlg_calls # hist.dlg_calls =>
          \/ pc = "loop" /\ row'.index = row.index + 1 /\ hist'.dlg_calls = 0
          \/ pc = "decide" /\ hist.dlg_calls = 0 /\ DialogCalled

\* C1: when a row with two or more candidates is decided, the top-scored
\* candidate is chosen and no dialog is opened if and only if no_confirm is set,
\* or top >= auto_score_threshold, or top - second >= gap_threshold (both
\* inclusive); otherwise the dialog is called. The count of dialog calls of
\* the row in progress starts at 0 with the row and only this step raises it,
\* from 0 to 1.
C1_DecisionPolicy == [][C1Step]_vars

\* C1 witness: scores [0.70, 0.58] with the default thresholds and
\* confirmations on: the gap is exactly 0.12 and the first candidate is
\* chosen with no dialog.
C1_Witness ==
    /\ pc = "write"
    /\ row.scores = <<70, 58>>
    /\ ~cfg.no_confirm
    /\ cfg.auto_score_threshold = DefaultAutoScore
    /\ cfg.gap_threshold = DefaultGap
    /\ row.chosen = Candidate(row.index, 0)
    /\ hist.dlg_calls = 0

\* C2: a call of search_goodreads that has returned has returned a list, for
\* every max_retries >= 0 and max_results >= 0 and every course of the attempts.
C2_AlwaysList == pc = "fetch_ret" => fetch.ret.kind = "list"

\* the attempts of the call so far, 0-based, that failed transiently and were
\* not the last allowed one
WaitedAfter ==
    { a \in 0..(fetch.requests - 1) :
        fetch.outcomes[a + 1] = "transient" /\ a < fetch.max_retries - 1 }

\* C3: at most max_retries requests are issued; the waits are 2^a seconds, one
\* after each transiently failed attempt a that is not the last allowed one;
\* when the attempts of the call (one at least) are used up by transient
\* failures the call returns [] with no wait after the last failure; an
\* attempt that ends otherwise, a success included, is the last request.
C3_RetryBackoff ==
    /\ fetch.requests <= fetch.max_retries
    /\ fetch.requests = Len(fetch.outcomes)
    /\ \A i \in DOMAIN fetch.waits : fetch.waits[i] = 2 ^ (i - 1)
    /\ Len(fetch.waits) =
          Cardinality(WaitedAfter) - (IF pc = "backoff" THEN 1 ELSE 0)
    /\ ( /\ fetch.requests >= 1
         /\ fetch.requests = fetch.max_retries
         /\ fetch.outcomes[fetch.requests] = "transient" )
         => /\ pc = "fetch_ret"
            /\ fetch.ret = RetList(<<>>)
            /\ Len(fetch.waits) = fetch.max_retries - 1
    /\ \A i \in DOMAIN fetch.outcomes :
          fetch.outcomes[i] # "transient" =>
             /\ i = Len(fetch.outcomes)
             /\ pc = "fetch_ret"
    /\ \A i \in DOMAIN fetch.outcomes :
          i < Len(fetch.outcomes) => fetch.outcomes[i] = "transient"

\* C3 witness: max_retries = 4 and four transient failures: waits of 1, 2 and
\* 4 seconds, then [].
C3_Witness ==
    /\ pc = "fetch_ret"
    /\ fetch.max_retries = 4
    /\ fetch.requests = 4
    /\ fetch.waits = <<1, 2, 4>>
    /\ fetch.ret = RetList(<<>>)

\* the output row of input row r comes from row r: the defaults for a row
\* without title, else what one write of row r's own step left, which is the
\* empty record or a candidate of row r's own search
OwnOutput(r, out) ==
    IF IsBlank(cfg.titles[r])
    THEN out = DefaultRow /\ hist.calls[r].writes = 0
    ELSE /\ hist.calls[r].writes = 1
         /\ \/ out = OutputRow(EmptyChosen)
            \/ \E k \in 0..(DefaultMaxResults - 1) : out = OutputRow(Candidate(r, k))

Interrupted == hist.error.type = "KeyboardInterrupt"

C4Safe ==
    /\ hist.visited = [i \in 1..row.index |-> i]
    /\ hist.output_writes = 1 =>
          /\ Len(hist.visited) = cfg.nrows
          /\ Len(hist.output) = cfg.nrows
          /\ \A r \in 1..cfg.nrows : OwnOutput(r, hist.output[r])
    /\ (pc \in {"returned", "exited"} /\ ~Interrupted) => hist.output_writes = 1

\* C4: with the title column present, no interrupt and every dialog answered,
\* the run gets to write the output table; the rows are visited once each in
\* table order, and the table written has one row per input row, in order,
\* each from its own row's processing, whichever rows had no match.
C4_BatchCompletes ==
    /\ []C4Safe
    /\ <>(Interrupted \/ hist.output_writes = 1)

\* C4 witness: two rows, the first ends with no candidate, the second gets
\* its candidate, and the table is written.
C4_Witness ==
    /\ pc = "returned"
    /\ cfg.nrows = 2
    /\ hist.output_writes = 1
    /\ hist.calls[1].fetch = 1
    /\ hist.output[1] = OutputRow(EmptyChosen)
    /\ hist.output[2] = OutputRow(Candidate(2, 0))

\* C5: after a KeyboardInterrupt in the processing of row k nothing more is
\* processed: no later row has a fetch, a write or a delay, nothing is in
\* progress, the output file is not written, and the script ends with
\* root.destroy() attempted and a non-zero status. A run that ends without
\* interrupt has written the output table once, after the last row, and ends
\* with status 0.
C5_InterruptAborts ==
    /\ Interrupted =>
          /\ pc \in {"interrupted", "exited"}
          /\ hist.interrupted_at = row.index
          /\ hist.interrupted_at \in 1..cfg.nrows
          /\ \A r \in (hist.interrupted_at + 1)..cfg.nrows : hist.calls[r] = NoCalls
          /\ fetch = NoFetch /\ ~dlg.open
          /\ hist.output_writes = 0
          /\ pc = "exited" =>
                /\ hist.root_destroys >= 1
                /\ hist.exit_status # NoneVal
                /\ hist.exit_status.int # 0
    /\ (pc = "exited" /\ ~Interrupted) =>
          /\ hist.output_writes = 1
          /\ hist.exit_status = IntVal(0)
    /\ hist.output_writes <= 1
    /\ hist.output_writes = 1 =>
          /\ row.index = cfg.nrows
          /\ hist.output = df.rows
          /\ \A r \in 1..cfg.nrows :
                hist.calls[r].fetch = hist.calls[r].delay

\* C5 witness: the interrupt comes in the backoff wait of row 1 of 2; the
\* script has ended with status 1.
C5_Witness ==
    /\ pc = "exited"
    /\ cfg.nrows = 2
    /\ hist.interrupted_at = 1
    /\ hist.interrupted_in = "backoff"
    /\ hist.exit_status = IntVal(1)
    /\ hist.calls[2] = NoCalls
    /\ ~IsBlank(cfg.titles[2])

\* C6: the value ask_user_choice_with_images returns is None or one element
\* of the list it was given; it is None after 'Skip', after 'Cancel' or the
\* closing of the window, whatever was selected before, and after 'OK' with no
\* radio button selected.
C6_OneOrNone ==
    pc = "dialog_ret" =>
       LET v == dlg.ret.items[1]
       IN  /\ Len(dlg.ret.items) = 1
           /\ v = NoneVal \/ \E i \in DOMAIN dlg.candidates : v = dlg.candidates[i]
           /\ dlg.closed_by \in {"Skip", "Cancel"} => v = NoneVal
           /\ (dlg.closed_by = "OK" /\ dlg.var < 0) => v = NoneVal

\* C6 witness: a candidate was selected, then 'Cancel': None is returned.
C6_Witness ==
    /\ pc = "dialog_ret"
    /\ dlg.closed_by = "Cancel"
    /\ dlg.var >= 0
    /\ dlg.ret.items[1] = NoneVal

\* the row in progress got exactly one candidate from its search
OneCandidate == row.candidates.kind = "list" /\ Len(row.candidates.items) = 1

\* C7: a row whose search returned exactly one candidate takes it: no score
\* is computed, no dialog is called, and the row's output fields are that
\* candidate's, whatever no_confirm and the thresholds are.
C7_SingleCandidate ==
    (pc \in {"write", "delay"} /\ OneCandidate) =>
       /\ row.chosen = row.candidates.items[1]
       /\ row.chosen = Candidate(row.index, 0)
       /\ row.scores = <<>>
       /\ hist.dlg_calls = 0
       /\ pc = "delay" => df.rows[row.index] = OutputRow(Candidate(row.index, 0))

\* C7 witness: confirmations on, one candidate, written to the row.
C7_Witness ==
    /\ pc = "delay"
    /\ OneCandidate
    /\ ~cfg.no_confirm
    /\ df.rows[row.index].exact_book_name = "title " \o ToString(row.index) \o ".0"

\* C8: for a row whose title is null or '', no search is made, nothing is
\* written, no delay is spent, no dialog is called, and its five output fields
\* keep their defaults, in the data frame and in the file written.
C8_BlankRowSkipped ==
    \A r \in 1..cfg.nrows :
       (cfg.titles[r] = NaN \/ cfg.titles[r] = "") =>
          /\ hist.calls[r] = [fetch |-> 0, writes |-> 0, delay |-> 0]
          /\ df.added =>
                df.rows[r] = [ exact_book_name |-> "", author |-> "",
                               publish_date |-> "", ratings_count |-> 0,
                               goodreads_link |-> "" ]
          /\ hist.output_writes = 1 => hist.output[r] = df.rows[r]
          /\ (row.index = r /\ ~Interrupted) =>
                /\ pc \in {"loop", "returned", "exited"}
                /\ fetch = NoFetch /\ ~dlg.open /\ hist.dlg_calls = 0

\* C8 witness: the first row has a title and got a candidate, the second has
\* the title '' and the table is written.
C8_Witness ==
    /\ pc = "returned"
    /\ cfg.titles = <<"Dune", "">>
    /\ hist.output[1] = OutputRow(Candidate(1, 0))
    /\ hist.output[2] = DefaultRow
    /\ hist.visited = <<1, 2>>

\* the row in progress ended with no match
NoMatch ==
    \/ row.candidates.kind = "None"
    \/ row.candidates.kind = "list" /\ row.candidates.items = <<>>
    \/ hist.dlg_calls = 1 /\ row.selected = NoneVal

\* C9: a row that ends with no candidate from its search, or with None from
\* the dialog, gets the all-empty record: '' four times and ratings_count 0.
C9_NoMatchIsEmpty ==
    (pc \in {"write", "delay"} /\ NoMatch) =>
       /\ row.chosen = [ exact_title |-> "", author |-> "", publish_date |-> "",
                         ratings_count |-> 0, goodreads_url |-> "" ]
       /\ pc = "delay" =>
             df.rows[row.index] = [ exact_book_name |-> "", author |-> "",
                                    publish_date |-> "", ratings_count |-> 0,
                                    goodreads_link |-> "" ]

\* C9 witness: the dialog was called and returned None; the row is written
\* with the empty record.
C9_Witness ==
    /\ pc = "delay"
    /\ hist.dlg_calls = 1
    /\ row.selected = NoneVal
    /\ df.rows[row.index].ratings_count = 0
    /\ df.rows[row.index].exact_book_name = ""

\* C10: with the title column absent the call ends in a ValueError that
\* carries the list of columns, and nothing else happens: no row is visited,
\* no search, no dialog, no output column, no output file.
C10_ConfigError ==
    book_column \notin Range(cfg.columns) =>
       /\ pc \in {"start", "raised"}
       /\ pc = "raised" =>
             hist.error = [type |-> "ValueError", columns |-> cfg.columns]
       /\ hist.visited = <<>>
       /\ \A r \in 1..cfg.nrows : hist.calls[r] = NoCalls
       /\ hist.dlg_calls = 0
       /\ fetch = NoFetch
       /\ dlg = NoDialog
       /\ ~df.added
       /\ hist.output_writes = 0

\* C10 witness: a table of two rows without the column: ValueError.
C10_Witness ==
    /\ pc = "raised"
    /\ cfg.nrows = 2
    /\ book_column \notin Range(cfg.columns)
    /\ hist.error.type = "ValueError"

\* C11: normalize_title gives a str for every argument, '' for None and for
\* '', and applied to its own result it gives that result again.
C11_NormalizeIdempotent ==
    (pc = "normalize" /\ row.index >= 1) =>
       /\ row.book_name.kind = "str"
       /\ row.book_name.chars = normalize_title(cfg.titles[1])
       /\ normalize_title(row.book_name) = row.book_name.chars
       /\ (cfg.titles[1] = NoneVal \/ cfg.titles[1] = Str(<<>>)) =>
             row.book_name.chars = <<>>

\* C11 witness: '_gift-x' normalizes to '_gift x', where the keyword stands
\* as a word of its own only after the first pass, and the second call has
\* returned the same.
C11_Witness ==
    /\ pc = "normalize"
    /\ row.index = 2
    /\ cfg.titles[1] = Str(<< "_", "g", "i", "f", "t", "-", "x" >>)
    /\ row.book_name = Str(<< "_", "g", "i", "f", "t", " ", "x" >>)

\* what holds of the rows at every moment of a run
C12Inv ==
    /\ hist.visited = [i \in 1..row.index |-> i]
    /\ fetch # NoFetch => (~dlg.open /\ pc \in {"fetch", "backoff", "fetch_ret"})
    /\ dlg.open => pc = "dialog"
    /\ \A r \in 1..cfg.nrows :
          /\ hist.calls[r].fetch <= 1
          /\ hist.calls[r].writes <= 1
          /\ hist.calls[r].delay <= 1
          /\ r > row.index =>
                /\ hist.calls[r] = NoCalls
                /\ df.added => df.rows[r] = DefaultRow
          /\ (r < row.index /\ ~IsBlank(cfg.titles[r])) =>
                hist.calls[r] = [fetch |-> 1, writes |-> 1, delay |-> 1]

\* what holds of every step that starts a search or touches the output fields
C12Step ==
    \A i \in 1..cfg.nrows :
       /\ hist'.calls[i].fetch # hist.calls[i].fetch =>
             /\ i = row.index + 1 /\ row'.index = i
             /\ hist.calls[i] = NoCalls
             /\ fetch = NoFetch /\ ~dlg.open
             /\ \A j \in 1..(i - 1) :
                   ~IsBlank(cfg.titles[j]) => hist.calls[j].writes = 1
       /\ (df.added /\ df'.rows[i] # df.rows[i]) =>
             /\ i = row.index
             /\ pc = "write"
             /\ hist.calls[i].writes = 0
       /\ hist'.calls[i].writes # hist.calls[i].writes =>
             /\ i = row.index
             /\ pc = "write"
             /\ hist.calls[i] = [fetch |-> 1, writes |-> 0, delay |-> 0]
             /\ hist'.calls[i].writes = 1
             /\ fetch = NoFetch /\ ~dlg.open

\* C12: rows are processed one at a time in table order: the search of a row
\* starts only when every earlier row with a title has had its write, with no
\* search and no dialog in progress; a search and a dialog are never in
\* progress together; the output fields of a row are written once, in that
\* row's own write step, and no step writes the fields of another row.
C12_OneRowAtATime == []C12Inv /\ [][C12Step]_vars

\* C12 witness: the search of row 2 is in progress and row 1 has been written
\* with its candidate; row 2 still has its defaults.
C12_Witness ==
    /\ pc = "backoff"
    /\ cfg.nrows = 2
    /\ row.index = 2
    /\ hist.calls[1] = [fetch |-> 1, writes |-> 1, delay |-> 1]
    /\ df.rows[1] = OutputRow(Candidate(1, 1))
    /\ df.rows[2] = DefaultRow

C13Step ==
    (pc = "decide" /\ pc' \in {"write", "dialog"}) =>
       LET sc    == row.scores
           cands == row.candidates.items
           n     == Len(cands)
       IN  /\ n >= 2 /\ Len(sc) = n
           /\ pc' = "write" =>
                 \E k \in 1..n :
                    /\ row'.chosen = cands[k]
                    /\ \A j \in 1..n : sc[j] < sc[k] \/ (sc[j] = sc[k] /\ k <= j)
           /\ pc' = "dialog" =>
                 /\ Len(dlg'.candidates) = n
                 /\ \E perm \in [1..n -> 1..n] :
                       /\ \A a, b \in 1..n : a # b => perm[a] # perm[b]
                       /\ \A a \in 1..n : dlg'.candidates[a] = cands[perm[a]]
                       /\ \A a, b \in 1..n :
                             a < b => \/ sc[perm[a]] > sc[perm[b]]
                                      \/ /\ sc[perm[a]] = sc[perm[b]]
                                         /\ perm[a] < perm[b]

\* C13: with two or more candidates, the candidate taken without the dialog
\* has the highest score and is the earliest of the fetched list with that
\* score; the list given to the dialog is a permutation of the fetched list
\* along which scores never go up and equal scores keep their fetched order.
C13_StableRanking == [][C13Step]_vars

\* C13 witness: scores 0.70, 0.80, 0.80: the second candidate, the earlier of
\* the two best, is taken.
C13_Witness ==
    /\ pc = "write"
    /\ row.scores = <<70, 80, 80>>
    /\ row.sorted_idx = <<1, 2, 0>>
    /\ row.chosen = Candidate(row.index, 1)

\* the attempts of the call that ended in a parse failure: no result element
\* in the response, or an exception that is no RequestException
ParseFailures ==
    { i \in DOMAIN fetch.outcomes : fetch.outcomes[i] \in {"noresults", "other"} }

\* C14: an attempt of search_goodreads that gets a response without result
\* elements, or that raises an exception other than RequestException, is the
\* last one: the call has returned [] at that attempt, with no wait after it
\* and no further request, whatever number of attempts remains.
C14_ParseFailureReturns ==
    \A i \in ParseFailures :
       /\ i = Len(fetch.outcomes)
       /\ fetch.requests = i
       /\ fetch.attempt = i - 1
       /\ pc = "fetch_ret"
       /\ fetch.ret = RetList(<<>>)
       /\ Len(fetch.waits) = i - 1

\* C14 witness: max_retries = 4, the second response has no result element:
\* [] is returned after two requests and one wait.
C14_Witness ==
    /\ pc = "fetch_ret"
    /\ fetch.max_retries = 4
    /\ fetch.outcomes = <<"transient", "noresults">>
    /\ fetch.waits = <<1>>
    /\ fetch.ret = RetList(<<>>)

\* the locations at which a ManualMatchDialog object exists
DialogPcs == {"dialog", "dialog_closed", "dialog_ret"}

C15Inv ==
    /\ pc \notin DialogPcs => dlg = NoDialog
    /\ dlg.images > 0 =>
          /\ hist.dlg_calls = 1
          /\ ~cfg.no_confirm
          /\ cfg.PIL_AVAILABLE
    /\ cfg.no_confirm => (dlg = NoDialog /\ hist.dlg_calls = 0)
    /\ (pc \in {"write", "delay"} /\ hist.dlg_calls = 0) => dlg.images = 0

\* a step in which cover images are requested
C15Step ==
    dlg'.images > dlg.images =>
       /\ pc \in {"decide", "dialog"}
       /\ pc' = "dialog"
       /\ dlg'.open
       /\ hist'.dlg_calls = 1
       /\ ~cfg.no_confirm
       /\ dlg'.images - dlg.images <= per_page

\* C15: cover images are requested only in steps that open the dialog of the
\* current row or show its next page; outside a dialog call no image has been
\* requested for the row, so none for a row that takes the top candidate, has
\* one candidate, has none or has no title; with no_confirm set no dialog is
\* ever opened and no image is ever requested.
C15_ImagesOnlyInDialog == []C15Inv /\ [][C15Step]_vars

\* C15 witness: the dialog of a row is open on its first page of three
\* candidates and two covers have been requested.
C15_Witness ==
    /\ pc = "dialog"
    /\ dlg.open
    /\ dlg.page = 0
    /\ Len(dlg.candidates) = 3
    /\ dlg.images = 2

\* the rows whose sleep of line 319 is over
Slept == { r \in 1..cfg.nrows : hist.calls[r].delay = 1 }

\* C16: every row with a title has its one sleep of `delay` seconds after its
\* write and before the next row is looked at, rows without title have none,
\* and every such sleep has the length the call was given: when the search of
\* a row is in progress, each earlier row with a title has had its search and
\* exactly one sleep, whichever way it was resolved.
C16_FixedDelay ==
    /\ Len(hist.sleeps) = Cardinality(Slept)
    /\ \A k \in DOMAIN hist.sleeps : hist.sleeps[k] = cfg.delay
    /\ \A r \in DOMAIN cfg.titles :
          /\ hist.calls[r].delay <= 1
          /\ IsBlank(cfg.titles[r]) => hist.calls[r].delay = 0
          /\ hist.calls[r].delay = 1 => hist.calls[r].writes = 1
          /\ (r < row.index /\ ~IsBlank(cfg.titles[r])) =>
                (hist.calls[r].fetch = 1 /\ hist.calls[r].delay = 1)
          /\ (r = row.index /\ pc \in {"loop", "returned"} /\ ~IsBlank(cfg.titles[r])) =>
                hist.calls[r].delay = 1

\* C16 witness: a call with delay = 2 s: row 1 ended with no match and has
\* slept 2 s, and the search of row 2 is in progress.
C16_Witness ==
    /\ pc = "fetch"
    /\ cfg.delay = 200
    /\ row.index = 2
    /\ df.rows[1] = OutputRow(EmptyChosen)
    /\ hist.calls[1] = [fetch |-> 1, writes |-> 1, delay |-> 1]
    /\ hist.sleeps = <<200>>

\* 0 <= f <= 1 for a fraction f
InUnit(f) == f.den > 0 /\ 0 <= f.num /\ f.num <= f.den

\* C17: the fallback score of a normalized query and title is
\* 0.6 * jacc + 0.4 * seq with jacc the share of common words among all
\* words, 0 when neither has a word, and seq the SequenceMatcher ratio; jacc,
\* seq and the score all lie in [0, 1].
C17_ScoreRange ==
    pc = "scored" =>
       LET sc == row.scores[1]
           q  == Tokens(normalize_title(cfg.titles[1]))
           t  == Tokens(normalize_title(cfg.titles[2]))
       IN  /\ Len(row.scores) = 1
           /\ InUnit(sc.jacc) /\ InUnit(sc.seq) /\ InUnit(sc.s)
           /\ (q = {} /\ t = {}) => sc.jacc.num = 0
           /\ (q # {} \/ t # {}) =>
                 sc.jacc = Frac(Cardinality(q \cap t), Cardinality(q \cup t))
           /\ 10 * sc.s.num * sc.jacc.den * sc.seq.den =
                 sc.s.den * (6 * sc.jacc.num * sc.seq.den + 4 * sc.seq.num * sc.jacc.den)

\* C17 witness: query and title are the same two words: the score is 1.
C17_Witness ==
    /\ pc = "scored"
    /\ cfg.titles[1] = Str(<< "a", " ", "b" >>)
    /\ cfg.titles[2] = cfg.titles[1]
    /\ row.scores[1].jacc = Frac(2, 2)
    /\ row.scores[1].seq = Frac(6, 6)
    /\ row.scores[1].s.num = row.scores[1].s.den

\* C18: after 'OK', a candidate that is returned is one of the page on
\* display: its index lies in [page * per_page, page * per_page + per_page)
\* and its radio button is shown.
C18_OkReturnsDisplayed ==
    (pc = "dialog_ret" /\ dlg.closed_by = "OK" /\ dlg.ret.items[1] # NoneVal) =>
       /\ dlg.selected_idx # NoneVal
       /\ dlg.selected_idx.int >= dlg.page * per_page
       /\ dlg.selected_idx.int < dlg.page * per_page + per_page
       /\ dlg.selected_idx.int \in Displayed(dlg)

\* the place k that the result element of a candidate of row r had in its
\* response, read back from the fields of the dict or of the output row
PlaceIn(fields, r) == fields.ratings_count - 10 * r

\* c is a candidate dict that a search for the title of row r can return
IsOwnCandidate(c, r) ==
    /\ PlaceIn(c, r) \in 0..(DefaultMaxResults - 1)
    /\ c = Candidate(r, PlaceIn(c, r))

\* out is the output row of such a candidate
IsOwnOutput(out, r) ==
    /\ PlaceIn(out, r) \in 0..(DefaultMaxResults - 1)
    /\ out = OutputRow(Candidate(r, PlaceIn(out, r)))

\* C19: the output fields of a row that has been written hold the empty
\* record or a candidate of that row's own search, and those of a row not
\* written hold the defaults; the candidates under consideration for the row
\* in progress (returned by the search, shown in the dialog, chosen) are all
\* from its own search; and when the loop turns to the next row nothing of
\* the earlier row is left but the output table.
C19_RowsIndependent ==
    /\ \A r \in 1..cfg.nrows :
          df.added =>
             /\ hist.calls[r].writes = 0 => df.rows[r] = DefaultRow
             /\ hist.calls[r].writes = 1 =>
                   \/ df.rows[r] = OutputRow(EmptyChosen)
                   \/ IsOwnOutput(df.rows[r], r)
    /\ \A c \in Range(fetch.ret.items) \cup Range(row.candidates.items)
                \cup Range(dlg.candidates) :
          IsOwnCandidate(c, row.index)
    /\ pc \in {"write", "delay"} =>
          (row.chosen = EmptyChosen \/ IsOwnCandidate(row.chosen, row.index))
    /\ pc = "loop" =>
          /\ row.candidates = RetPending /\ row.scores = <<>>
          /\ row.sorted_idx = <<>> /\ row.selected = NoneVal
          /\ row.chosen = NoneVal
          /\ fetch = NoFetch
          /\ dlg = NoDialog

\* C19 witness: row 1 holds a candidate of its search; row 2 went to the
\* dialog and holds the third candidate of its own search.
C19_Witness ==
    /\ pc = "delay"
    /\ row.index = 2
    /\ hist.dlg_calls = 1
    /\ df.rows[1] = OutputRow(Candidate(1, 0))
    /\ df.rows[2] = OutputRow(Candidate(2, 2))

====
